---- MODULE Spec2Model ----
(***************************************************************************)
(* Model of the NestJS + TypeORM item demo: the ConfigService singleton,   *)
(* the ItemDTO <-> Item mapping, ItemService / ItemController over the     *)
(* "item" table, and the server's bootstrap sequence.                      *)
(*                                                                         *)
(* JavaScript strings are sequences of one-character strings, so that      *)
(* parseInt and string concatenation are computed and not assumed.         *)
(* Values that may be undefined or null are tagged records.                *)
(***************************************************************************)
EXTENDS Integers, Sequences, FiniteSets, Bags, TLC

VARIABLES
    env,            \* process.env: key -> string | undefined
    pc,             \* position of the server process (main.ts and its imports)
    configService,  \* the exported singleton of config.service.ts, Undefined until built
    thrown,         \* the uncaught error that ended the process, with the module that threw
    ormOptions,     \* the options handed to TypeOrmModule.forRoot by AppModule
    connected,      \* TRUE once the TypeORM connection has been opened
    swagger,        \* TRUE once SwaggerModule.setup has registered the docs endpoint
    listenPort,     \* the port app.listen was called with, Undefined before
    table,          \* the rows of the "item" table, in insertion order
    requests,       \* the POST /item requests whose repo.save is pending (a bag)
    settled,        \* the request answered most recently, with its response
    clock,          \* the wall clock read by new Date()
    listed,         \* the GET /item request answered most recently, with its response
    seed,           \* the seed script's process (scripts/seed.ts), Undefined when not run
    start,          \* the start script's process (start.sh), Undefined when not run
    schema,         \* the database schema: its tables and the rows of the migration table
    call,           \* unit level: the function most recently applied, with its arguments
    ret             \* unit level: what that application returned or threw

vars == <<env, pc, configService, thrown, ormOptions, connected, swagger,
          listenPort, table, requests, settled, clock, listed, seed, start, schema,
          call, ret>>

serverVars == <<pc, configService, thrown, ormOptions, connected, swagger,
                listenPort, table, requests, settled, clock, listed, seed, start,
                schema>>

-----------------------------------------------------------------------------
(* Bounds of the model *)

MaxRequests == 2    \* requests (GET /item, POST /item) received in one run
MaxClock == 1       \* unit level: the clock ticks at most this far

-----------------------------------------------------------------------------
(* JavaScript values *)

Undefined == [t |-> "undefined"]
Null == [t |-> "null"]
NaN == [t |-> "NaN"]
Str(s) == [t |-> "string", s |-> s]
Num(n) == [t |-> "number", n |-> n]

\* ToBoolean(v) = false, as tested by `!v` and `v ? a : b`
Falsy(v) == v \in {Undefined, Null, NaN, Str(<<>>), Num(0)}

\* completion of a call: a returned value or a thrown error
Return(v) == [ok |-> TRUE, value |-> v]
Throw(e) == [ok |-> FALSE, error |-> e]

Digits == <<"0", "1", "2", "3", "4", "5", "6", "7", "8", "9">>

DigitVal(c) ==
    CASE c = "0" -> 0 [] c = "1" -> 1 [] c = "2" -> 2 [] c = "3" -> 3
      [] c = "4" -> 4 [] c = "5" -> 5 [] c = "6" -> 6 [] c = "7" -> 7
      [] c = "8" -> 8 [] c = "9" -> 9
      [] c \in {"a", "A"} -> 10 [] c \in {"b", "B"} -> 11
      [] c \in {"c", "C"} -> 12 [] c \in {"d", "D"} -> 13
      [] c \in {"e", "E"} -> 14 [] c \in {"f", "F"} -> 15
      [] OTHER -> 99

RECURSIVE TrimStart(_)
TrimStart(s) ==
    IF s # <<>> /\ Head(s) \in {" ", "\t", "\n"} THEN TrimStart(Tail(s)) ELSE s

\* the longest prefix of s made of digits of the radix, as [n, seen]
RECURSIVE ParseDigits(_, _, _, _)
ParseDigits(s, radix, acc, seen) ==
    IF s # <<>> /\ DigitVal(Head(s)) < radix
    THEN ParseDigits(Tail(s), radix, acc * radix + DigitVal(Head(s)), TRUE)
    ELSE [n |-> acc, seen |-> seen]

\* parseInt(string) of ECMAScript, radix argument omitted
parseInt(v) ==
    IF v.t # "string" THEN NaN
    ELSE LET s0 == TrimStart(v.s)
             neg == s0 # <<>> /\ Head(s0) = "-"
             s1 == IF s0 # <<>> /\ Head(s0) \in {"-", "+"} THEN Tail(s0) ELSE s0
             hex == Len(s1) >= 2 /\ s1[1] = "0" /\ s1[2] \in {"x", "X"}
             s2 == IF hex THEN Tail(Tail(s1)) ELSE s1
             p == ParseDigits(s2, IF hex THEN 16 ELSE 10, 0, FALSE)
         IN  IF ~p.seen THEN NaN
             ELSE Num(IF neg THEN 0 - p.n ELSE p.n)

-----------------------------------------------------------------------------
(* config.service.ts *)

RequiredKeysWithPort ==
    <<"POSTGRES_HOST", "POSTGRES_PORT", "POSTGRES_USER", "POSTGRES_PASSWORD",
      "POSTGRES_DATABASE", "PORT">>

RequiredKeys ==
    <<"POSTGRES_HOST", "POSTGRES_PORT", "POSTGRES_USER", "POSTGRES_PASSWORD",
      "POSTGRES_DATABASE">>

EnvKeys ==
    {"POSTGRES_HOST", "POSTGRES_PORT", "POSTGRES_USER", "POSTGRES_PASSWORD",
     "POSTGRES_DATABASE", "PORT", "MODE"}

DEV == <<"D", "E", "V">>

\* new Error(`config error - missing env.${key}`)
ConfigError(key) ==
    [name |-> "Error", message |-> <<"config error - missing env.", key>>]

\* new ConfigService(env)
ConfigService(e) == [env |-> e]

getValueLax(this, key, throwOnMissing) ==
    LET value == this.env[key]
    IN  IF value = Undefined /\ throwOnMissing
        THEN Throw(ConfigError(key))
        ELSE Return(value)

getValue(this, key, throwOnMissing) ==
    LET value == this.env[key]
    IN  IF Falsy(value) /\ throwOnMissing
        THEN Throw(ConfigError(key))
        ELSE Return(value)

getValueDefaultOff(this, key) == getValue(this, key, FALSE)

\* getValue(key): the parameter default throwOnMissing = true applies
getValueDefault(this, key) == getValue(this, key, TRUE)

RECURSIVE forEachGetValue(_, _)
forEachGetValue(this, keys) ==
    IF keys = <<>> THEN Return(Undefined)
    ELSE LET r == getValue(this, Head(keys), TRUE)
         IN  IF ~r.ok THEN r ELSE forEachGetValue(this, Tail(keys))

ensureValuesUnchecked(this, keys) == Return(this)

ensureValues(this, keys) ==
    LET r == forEachGetValue(this, keys)
    IN  IF ~r.ok THEN r ELSE Return(this)

getPortOptional(this) == getValue(this, "PORT", FALSE)

getPort(this) == getValue(this, "PORT", TRUE)

isProductionStrict(this) ==
    LET mode == getValue(this, "MODE", TRUE)
    IN  IF ~mode.ok THEN mode ELSE Return(mode.value # Str(DEV))

isProductionNever(this) == Return(FALSE)

isProduction(this) ==
    LET mode == getValue(this, "MODE", FALSE)
    IN  IF ~mode.ok THEN mode ELSE Return(mode.value # Str(DEV))

TypeOrmOptions(host, port, username, password, database, ssl) ==
    [type |-> "postgres",
     host |-> host,
     port |-> port,
     username |-> username,
     password |-> password,
     database |-> database,
     entities |-> <<"**/*.entity{.ts,.js}">>,
     migrationsTableName |-> "migration",
     migrations |-> <<"src/migration/*.ts">>,
     cli |-> [migrationsDir |-> "src/migration"],
     ssl |-> ssl]

getTypeOrmConfigRawPort(this) ==
    LET host == getValueDefault(this, "POSTGRES_HOST")
        port == getValueDefault(this, "POSTGRES_PORT")
        username == getValueDefault(this, "POSTGRES_USER")
        password == getValueDefault(this, "POSTGRES_PASSWORD")
        database == getValueDefault(this, "POSTGRES_DATABASE")
        ssl == isProduction(this)
    IN  IF ~host.ok THEN host
        ELSE IF ~port.ok THEN port
        ELSE IF ~username.ok THEN username
        ELSE IF ~password.ok THEN password
        ELSE IF ~database.ok THEN database
        ELSE IF ~ssl.ok THEN ssl
        ELSE Return(TypeOrmOptions(host.value, port.value, username.value,
                                   password.value, database.value, ssl.value))

\* the object literal's properties are evaluated in source order; the first
\* getValue that throws ends the evaluation
getTypeOrmConfig(this) ==
    LET host == getValueDefault(this, "POSTGRES_HOST")
        port == getValueDefault(this, "POSTGRES_PORT")
        username == getValueDefault(this, "POSTGRES_USER")
        password == getValueDefault(this, "POSTGRES_PASSWORD")
        database == getValueDefault(this, "POSTGRES_DATABASE")
        ssl == isProduction(this)
    IN  IF ~host.ok THEN host
        ELSE IF ~port.ok THEN port
        ELSE IF ~username.ok THEN username
        ELSE IF ~password.ok THEN password
        ELSE IF ~database.ok THEN database
        ELSE IF ~ssl.ok THEN ssl
        ELSE Return(TypeOrmOptions(host.value, parseInt(port.value), username.value,
                                   password.value, database.value, ssl.value))

\* const configService = new ConfigService(process.env).ensureValues([...])
NewConfigService(e) == ensureValues(ConfigService(e), RequiredKeys)

-----------------------------------------------------------------------------
(* model/base.entity.ts, model/item.entity.ts, user.decorator.ts, item.dto.ts *)

Bool(b) == [t |-> "boolean", b |-> b]
Date(ms) == [t |-> "date", ms |-> ms]

\* interface User { id: string }
UserOf(id) == [t |-> "object", id |-> id]

EntityFields ==
    {"id", "isActive", "isArchived", "createDateTime", "createdBy",
     "lastChangedDateTime", "lastChangedBy", "internalComment", "name", "description"}

\* new Item(): no field has an initializer
NewItem == [f \in EntityFields |-> Undefined]

\* ItemDTO.name inside a static method: the name of the class itself
ItemDTO_name == <<"I", "t", "e", "m", "D", "T", "O">>

\* ItemDTO.from(dto)
from(dto) == [id |-> dto.id, name |-> dto.name, description |-> dto.description]

fromEntityWhole(entity) == entity

\* ItemDTO.fromEntity(entity)
fromEntity(entity) ==
    from([id |-> entity.id, name |-> entity.name, description |-> entity.description])

toEntityCreatedOnly(dto, userArg, now) ==
    LET user == IF userArg = Undefined THEN Null ELSE userArg
    IN  [NewItem EXCEPT
            !.id = dto.id,
            !.name = Str(ItemDTO_name),
            !.description = dto.description,
            !.createDateTime = Date(now),
            !.createdBy = IF Falsy(user) THEN Null ELSE user.id]

\* ItemDTO.toEntity(dto, user = null), with new Date() reading `now`; the
\* default applies when the argument is undefined
toEntity(dto, userArg, now) ==
    LET user == IF userArg = Undefined THEN Null ELSE userArg
    IN  [NewItem EXCEPT
            !.id = dto.id,
            !.name = Str(ItemDTO_name),
            !.description = dto.description,
            !.createDateTime = Date(now),
            !.createdBy = IF Falsy(user) THEN Null ELSE user.id,
            !.lastChangedBy = IF Falsy(user) THEN Null ELSE user.id]

\* the @User() parameter decorator: (data, req) => req.user
UserDecorator(req) == req.user

-----------------------------------------------------------------------------
(* The "item" table of migration 1570350985895-init and Repository.save *)

\* Number.prototype.toString(): the decimal digits of a natural number
RECURSIVE toString(_)
toString(n) ==
    IF n < 10 THEN <<Digits[n + 1]>>
    ELSE toString(n \div 10) \o <<Digits[(n % 10) + 1]>>

\* the uuids, numbered
UuidOf(k) == <<"i", "d", "-">> \o toString(k)

FirstUuid(rows) == Str(UuidOf(1))

\* uuid_generate_v4(): a uuid no row of the table has
FreshUuid(rows) ==
    LET used == {rows[i].id : i \in 1..Len(rows)}
        k == CHOOSE n \in 1..(Len(rows) + 1) : Str(UuidOf(n)) \notin used
    IN  Str(UuidOf(k))

\* the columns declared NOT NULL
NotNullColumns == EntityFields \ {"internalComment"}

\* QueryFailedError: null value in column violates not-null constraint
QueryFailedError(column) ==
    [name |-> "QueryFailedError", message |-> <<"not-null constraint", column>>]

\* the value an INSERT stores for a column: undefined takes the column's
\* DEFAULT (NULL where the column has none), anything else is stored as given
ColumnDefault(column, rows, now) ==
    CASE column = "id" -> FreshUuid(rows)
      [] column = "isActive" -> Bool(TRUE)
      [] column = "isArchived" -> Bool(FALSE)
      [] column \in {"createDateTime", "lastChangedDateTime"} -> Date(now)
      [] OTHER -> Null

RowIndex(rows, id) == {i \in 1..Len(rows) : rows[i].id = id}

InsertedRow(rows, entity, now) ==
    [f \in EntityFields |->
        IF entity[f] = Undefined THEN ColumnDefault(f, rows, now) ELSE entity[f]]

\* UPDATE ... SET of the columns the entity defines; the update date column
\* is set by the ORM
UpdatedRow(old, entity, now) ==
    [f \in EntityFields |->
        IF f = "lastChangedDateTime" THEN Date(now)
        ELSE IF entity[f] = Undefined THEN old[f] ELSE entity[f]]

\* repo.save(entity): INSERT when the entity has no id or no row has its id,
\* UPDATE of that row otherwise; the result carries the table afterwards and
\* the entity as save resolves it
save(rows, entity, now) ==
    LET at == IF entity.id = Undefined THEN {} ELSE RowIndex(rows, entity.id)
        row == IF at = {} THEN InsertedRow(rows, entity, now)
               ELSE UpdatedRow(rows[CHOOSE i \in at : TRUE], entity, now)
        nulls == {f \in NotNullColumns : row[f] = Null}
    IN  IF nulls # {}
        THEN Throw(QueryFailedError(CHOOSE f \in nulls : TRUE))
        ELSE IF at = {}
        THEN Return([table |-> Append(rows, row), entity |-> row])
        ELSE Return([table |-> [rows EXCEPT ![CHOOSE i \in at : TRUE] = row],
                     entity |-> [entity EXCEPT !.lastChangedDateTime = Date(now)]])

-----------------------------------------------------------------------------
(* Migrations: migration/1570350985895-init.ts and the typeorm CLI command  *)
(* migration:run over the tracking table "migration"                        *)

\* class init1570350985895: up() is CREATE TABLE "item" (...)
init1570350985895 ==
    [name |-> <<"i", "n", "i", "t", "1", "5", "7", "0", "3", "5", "0", "9", "8", "5", "8", "9", "5">>,
     up |-> [op |-> "CREATE TABLE", table |-> "item"]]

\* a migration generated later on top of init, changing the item table
next1570350990000 ==
    [name |-> <<"n", "e", "x", "t", "1", "5", "7", "0", "3", "5", "0", "9", "9", "0", "0", "0", "0">>,
     up |-> [op |-> "ALTER TABLE", table |-> "item"]]

\* the timestamp of a migration: the last 13 characters of its class name
timestamp(name) == SubSeq(name, Len(name) - 12, Len(name))

\* a < b for two timestamps, numerals of the same length
Earlier(a, b) ==
    \E i \in 1..Len(a) :
        /\ DigitVal(a[i]) < DigitVal(b[i])
        /\ \A j \in 1..(i - 1) : a[j] = b[j]

\* the migrations of the directory sorted by timestamp, the earliest first
ascending(files) ==
    CHOOSE s \in [1..Cardinality(files) -> files] :
        \A i, j \in 1..Cardinality(files) :
            i < j => Earlier(timestamp(s[i].name), timestamp(s[j].name))

\* a database nothing has been applied to
Fresh == [tables |-> {}, altered |-> {}, migration |-> <<>>]

\* a database whose item table was made by schema synchronisation
Synchronized == [tables |-> {"item"}, altered |-> {}, migration |-> <<>>]

SchemaError(text, relation) ==
    [name |-> "QueryFailedError", message |-> <<text, relation>>]

\* queryRunner.query(statement) against the schema db
execute(db, statement) ==
    CASE statement.op = "CREATE TABLE" ->
            IF statement.table \in db.tables
            THEN Throw(SchemaError("relation already exists", statement.table))
            ELSE Return([db EXCEPT !.tables = @ \cup {statement.table}])
      [] statement.op = "ALTER TABLE" ->
            IF statement.table \notin db.tables
            THEN Throw(SchemaError("relation does not exist", statement.table))
            ELSE IF statement.table \in db.altered
            THEN Throw(SchemaError("column already exists", statement.table))
            ELSE Return([db EXCEPT !.altered = @ \cup {statement.table}])

\* the pending migrations run in order inside one transaction: up(), then
\* the row of the tracking table; the first error ends the run
RECURSIVE executePending(_, _, _)
executePending(db, pending, statements) ==
    IF pending = <<>> THEN Return([db |-> db, statements |-> statements])
    ELSE LET r == execute(db, Head(pending).up)
         IN  IF ~r.ok THEN r
             ELSE executePending(
                    [r.value EXCEPT !.migration =
                        Append(@, [timestamp |-> timestamp(Head(pending).name),
                                   name |-> Head(pending).name])],
                    Tail(pending), Append(statements, Head(pending).up))

NotRecorded(db, m) == \A i \in 1..Len(db.migration) : db.migration[i].name # m.name

migrationRunAll(db, files) ==
    LET tracked == [db EXCEPT !.tables = @ \cup {"migration"}]
        r == executePending(tracked, ascending(files), <<>>)
    IN  IF r.ok THEN r ELSE [ok |-> FALSE, error |-> r.error, db |-> tracked]

\* typeorm migration:run: the tracking table is created if it is missing,
\* the migrations it does not record are run in ascending order, and on an
\* error the transaction is rolled back
migrationRun(db, files) ==
    LET tracked == [db EXCEPT !.tables = @ \cup {"migration"}]
        pending == SelectSeq(ascending(files), LAMBDA m : NotRecorded(db, m))
        r == executePending(tracked, pending, <<>>)
    IN  IF r.ok THEN r ELSE [ok |-> FALSE, error |-> r.error, db |-> tracked]

\* the database after `npm run typeorm:migration:run` on a fresh one
Migrated == migrationRun(Fresh, {init1570350985895}).value.db

-----------------------------------------------------------------------------
(* The environments a process is started in *)

HostValues == {Undefined, Str(<<>>), Str(<<"d", "b">>)}
PortValues ==
    {Undefined, Str(<<>>), Str(<<"5", "4">>), Str(<<"8", "x">>), Str(<<"x">>),
     Str(<<"0", "x", "1", "f">>), Str(<<" ", "-", "7">>)}
UserValues == {Undefined, Str(<<>>), Str(<<"p", "g">>)}
PasswordValues == {Undefined, Str(<<>>), Str(<<"p", "w">>)}
DatabaseValues == {Undefined, Str(<<>>), Str(<<"m", "y">>)}
ListenValues == {Undefined, Str(<<>>), Str(<<"8", "0">>)}
ModeValues == {Undefined, Str(<<>>), Str(DEV), Str(<<"d", "e", "v">>),
               Str(<<"P", "R", "O", "D">>)}

EnvMap(host, port, user, password, database, listen, mode) ==
    [k \in EnvKeys |->
        CASE k = "POSTGRES_HOST" -> host
          [] k = "POSTGRES_PORT" -> port
          [] k = "POSTGRES_USER" -> user
          [] k = "POSTGRES_PASSWORD" -> password
          [] k = "POSTGRES_DATABASE" -> database
          [] k = "PORT" -> listen
          [] k = "MODE" -> mode]

EnvMaps ==
    {EnvMap(host, port, user, password, database, listen, mode) :
        host \in HostValues, port \in PortValues, user \in UserValues,
        password \in PasswordValues, database \in DatabaseValues,
        listen \in ListenValues, mode \in ModeValues}

NoCall == [fn |-> "none"]

-----------------------------------------------------------------------------
(* Unit level: the methods of ConfigService applied to an object built over *)
(* any environment, validated or not                                        *)

ServerIdle ==
    /\ pc = "start"
    /\ configService = Undefined
    /\ thrown = Undefined
    /\ ormOptions = Undefined
    /\ connected = FALSE
    /\ swagger = FALSE
    /\ listenPort = Undefined
    /\ table = <<>>
    /\ requests = EmptyBag
    /\ settled = Undefined
    /\ clock = 0
    /\ listed = Undefined
    /\ seed = Undefined
    /\ start = Undefined
    /\ schema = Migrated

InitConfig ==
    /\ env \in EnvMaps
    /\ ServerIdle
    /\ call = NoCall
    /\ ret = Undefined

CallGetValue ==
    \E key \in EnvKeys, throwOnMissing \in BOOLEAN :
        /\ call = NoCall
        /\ call' = [fn |-> "getValue", key |-> key, throwOnMissing |-> throwOnMissing]
        /\ ret' = getValue(ConfigService(env), key, throwOnMissing)
        /\ UNCHANGED <<env, serverVars>>

CallEnsureValues ==
    /\ call = NoCall
    /\ call' = [fn |-> "ensureValues", keys |-> RequiredKeys]
    /\ ret' = ensureValues(ConfigService(env), RequiredKeys)
    /\ UNCHANGED <<env, serverVars>>

CallIsProduction ==
    /\ call = NoCall
    /\ call' = [fn |-> "isProduction"]
    /\ ret' = isProduction(ConfigService(env))
    /\ UNCHANGED <<env, serverVars>>

CallGetTypeOrmConfig ==
    /\ call = NoCall
    /\ call' = [fn |-> "getTypeOrmConfig"]
    /\ ret' = getTypeOrmConfig(ConfigService(env))
    /\ UNCHANGED <<env, serverVars>>

CallGetPort ==
    /\ call = NoCall
    /\ call' = [fn |-> "getPort"]
    /\ ret' = getPort(ConfigService(env))
    /\ UNCHANGED <<env, serverVars>>

NextConfig ==
    \/ CallGetValue
    \/ CallEnsureValues
    \/ CallIsProduction
    \/ CallGetTypeOrmConfig
    \/ CallGetPort

SpecConfig == InitConfig /\ [][NextConfig]_vars

-----------------------------------------------------------------------------
(* Unit level: ItemDTO.toEntity and ItemDTO.fromEntity applied to any DTO   *)
(* and any acting user                                                      *)

SampleEnv ==
    EnvMap(Str(<<"d", "b">>), Str(<<"5", "4">>), Str(<<"p", "g">>), Str(<<"p", "w">>),
           Str(<<"m", "y">>), Undefined, Str(DEV))

DtoIds == {Undefined, Str(UuidOf(1)), Str(<<"n", "o">>)}
DtoNames == {Undefined, Str(<<>>), Str(ItemDTO_name), Str(<<"a">>)}
DtoDescriptions == {Undefined, Str(<<>>), Str(<<"S", "o", "m", "e">>)}
ActingUsers ==
    {Undefined, Null, UserOf(Str(<<"u", "1">>)),
     UserOf(Str(<<"s", "e", "e", "d", "-", "u", "s", "e", "r">>))}

InitDto ==
    /\ env = SampleEnv
    /\ ServerIdle
    /\ call = NoCall
    /\ ret = Undefined

\* the wall clock advances
Tick ==
    /\ clock' = clock + 1
    /\ UNCHANGED <<env, pc, configService, thrown, ormOptions, connected, swagger,
                   listenPort, table, requests, settled, call, ret, listed, seed, start, schema>>

DtoTick == clock < MaxClock /\ Tick

CallToEntity ==
    \E id \in DtoIds, name \in DtoNames, description \in DtoDescriptions,
       user \in ActingUsers :
        LET dto == from([id |-> id, name |-> name, description |-> description])
        IN  /\ call' = [fn |-> "toEntity", dto |-> dto, user |-> user]
            /\ ret' = Return(toEntity(dto, user, clock))
            /\ UNCHANGED <<env, serverVars>>

\* fromEntity applied to what the toEntity call returned
CallFromEntity ==
    /\ call.fn = "toEntity"
    /\ call' = [fn |-> "fromEntity", entity |-> ret.value, source |-> call]
    /\ ret' = Return(fromEntity(ret.value))
    /\ UNCHANGED <<env, serverVars>>

NextDto ==
    \/ DtoTick
    \/ CallToEntity
    \/ CallFromEntity

SpecDto == InitDto /\ [][NextDto]_vars

-----------------------------------------------------------------------------
(* The server process: main.ts with its imports, then the request handlers *)

ListenPort == 3000

ServerEnvMaps ==
    {EnvMap(host, port, user, password, database, listen, mode) :
        host \in HostValues,
        port \in {Undefined, Str(<<>>), Str(<<"5", "4">>)},
        user \in UserValues, password \in PasswordValues,
        database \in DatabaseValues, listen \in {Undefined, Str(<<"8", "0">>)},
        mode \in {Undefined, Str(DEV), Str(<<"d", "e", "v">>)}}

Init ==
    /\ env \in ServerEnvMaps
    /\ ServerIdle
    /\ call = NoCall
    /\ ret = Undefined

Exit(error, module) ==
    /\ thrown' = [error |-> error, at |-> module]
    /\ pc' = "exited"

\* import of config/config.service.ts: the singleton is built and validated
LoadConfigService ==
    /\ pc = "start"
    /\ LET r == NewConfigService(env)
       IN  IF r.ok
           THEN /\ configService' = r.value
                /\ pc' = "config"
                /\ UNCHANGED thrown
           ELSE /\ Exit(r.error, "config.service")
                /\ UNCHANGED configService
    /\ UNCHANGED <<env, ormOptions, connected, swagger, listenPort, table, requests,
                   settled, clock, call, ret, listed, seed, start, schema>>

\* evaluation of app.module.ts: TypeOrmModule.forRoot(configService.getTypeOrmConfig())
LoadAppModule ==
    /\ pc = "config"
    /\ LET r == getTypeOrmConfig(configService)
       IN  IF r.ok
           THEN /\ ormOptions' = r.value
                /\ pc' = "module"
                /\ UNCHANGED thrown
           ELSE /\ Exit(r.error, "app.module")
                /\ UNCHANGED ormOptions
    /\ UNCHANGED <<env, configService, connected, swagger, listenPort, table, requests,
                   settled, clock, call, ret, listed, seed, start, schema>>

\* bootstrap(): await NestFactory.create(AppModule) opens the connection
\* described by ormOptions, or rejects when the database cannot be reached
BootstrapCreate ==
    /\ pc = "module"
    /\ \E reachable \in BOOLEAN :
        IF reachable
        THEN /\ connected' = TRUE
             /\ pc' = "created"
             /\ UNCHANGED thrown
        ELSE /\ Exit([name |-> "Error", message |-> <<"connect", "database">>], "main")
             /\ UNCHANGED connected
    /\ UNCHANGED <<env, configService, ormOptions, swagger, listenPort, table, requests,
                   settled, clock, call, ret, listed, seed, start, schema>>

\* bootstrap() after the await: the Swagger block, then app.listen(3000)
BootstrapListen ==
    /\ pc = "created"
    /\ swagger' = ~isProduction(configService).value
    /\ listenPort' = Num(ListenPort)
    /\ pc' = "listening"
    /\ UNCHANGED <<env, configService, thrown, ormOptions, connected, table, requests,
                   settled, clock, call, ret, listed, seed, start, schema>>

\* what a client can send as the id of a body: nothing, or a uuid, which may
\* be the id of a row it has read
BodyIds == {Undefined, Str(UuidOf(1))}
BodyNames == {Undefined, Str(<<"a">>)}
BodyDescriptions == {Undefined, Str(<<"S", "o", "m", "e">>)}
\* req.user: set by an authentication middleware, if any
RequestUsers == {Undefined, UserOf(Str(<<"u", "1">>))}

\* the rejection of a repository operation whose connection was lost
ConnectionLost == [name |-> "Error", message |-> <<"connection", "terminated">>]

\* the rows in each order a SELECT without ORDER BY may deliver them
Orderings(rows) ==
    {[i \in 1..Len(rows) |-> rows[p[i]]] : p \in Permutations(1..Len(rows))}

\* repo.find(): what the pending query can settle to
find(rows) == {Return(o) : o \in Orderings(rows)} \cup {Throw(ConnectionLost)}

getAllSkippingFirst(found) ==
    IF found.ok
    THEN Return([i \in 1..(Len(found.value) - 1) |-> fromEntity(found.value[i + 1])])
    ELSE found

\* ItemService.getAll: .then(items => items.map(e => ItemDTO.fromEntity(e)))
\* on the settled repo.find(); a rejection passes through
getAll(found) ==
    IF found.ok
    THEN Return([i \in 1..Len(found.value) |-> fromEntity(found.value[i])])
    ELSE found

\* ItemService.create up to the pending repo.save
create(dto, user, now) == toEntity(dto, user, now)

createSwallowing(saved) ==
    IF saved.ok THEN Return(fromEntity(saved.value.entity)) ELSE Return(Undefined)

\* ItemService.create from the settled repo.save on: .then(e =>
\* ItemDTO.fromEntity(e)); a rejection passes through
createThen(saved) ==
    IF saved.ok THEN Return(fromEntity(saved.value.entity)) ELSE Throw(saved.error)

committedOrRolledBack(rows, saved) ==
    IF saved.ok THEN saved.value.table ELSE <<>>

\* the table once a repo.save issued on rows has settled: the save is a
\* statement of its own, inside no transaction of the caller, so a fulfilled
\* one is committed and a rejected one leaves the table as it was
committed(rows, saved) ==
    IF saved.ok THEN saved.value.table ELSE rows

\* GET /item: ItemController.getAll() answers with serv.getAll()
GetAll ==
    /\ pc = "listening"
    /\ clock < MaxRequests
    /\ \E found \in find(table) :
        listed' = [rows |-> table, finds |-> 1, found |-> found,
                   response |-> getAll(found)]
    /\ clock' = clock + 1
    /\ UNCHANGED <<env, pc, configService, thrown, ormOptions, connected, swagger,
                   listenPort, table, requests, settled, seed, call, ret, start, schema>>

\* POST /item: ItemController.post(@User() user, @Body() dto) calls
\* serv.create(dto, user), which builds the entity and issues repo.save.
\* Requests arrive at distinct instants: each one finds the clock advanced.
Post ==
    /\ pc = "listening"
    /\ clock < MaxRequests
    /\ \E id \in BodyIds, name \in BodyNames, description \in BodyDescriptions,
          reqUser \in RequestUsers :
        LET req == [user |-> reqUser,
                    body |-> [id |-> id, name |-> name, description |-> description]]
            user == UserDecorator(req)
        IN  requests' = requests (+) SetToBag({
                [req |-> req, user |-> user, saves |-> 1,
                 entity |-> create(req.body, user, clock + 1)]})
    /\ clock' = clock + 1
    /\ UNCHANGED <<env, pc, configService, thrown, ormOptions, connected, swagger,
                   listenPort, table, settled, call, ret, listed, seed, start, schema>>

\* the repo.save of request r settles, against the table as it is then or
\* with the connection lost, and the rest of create runs; the controller
\* answers with what create resolved or rejected with
SaveSettles(r) ==
    /\ requests' = requests (-) SetToBag({r})
    /\ \E saved \in {save(table, r.entity, clock), Throw(ConnectionLost)} :
        /\ table' = committed(table, saved)
        /\ settled' = [req |-> r.req, user |-> r.user, entity |-> r.entity,
                       saves |-> r.saves, rowsBefore |-> Len(table),
                       saved |-> saved, response |-> createThen(saved)]
    /\ UNCHANGED <<env, pc, configService, thrown, ormOptions, connected, swagger,
                   listenPort, clock, call, ret, listed, seed, start, schema>>

PostSettles == \E r \in BagToSet(requests) : SaveSettles(r)

Next ==
    \/ LoadConfigService
    \/ LoadAppModule
    \/ BootstrapCreate
    \/ BootstrapListen
    \/ GetAll
    \/ Post
    \/ PostSettles

Spec == Init /\ [][Next]_vars

-----------------------------------------------------------------------------
(* The seed script: scripts/seed.ts run as a process of its own, any number *)
(* of times, against the same table                                         *)

MaxSeedRuns == 2        \* seed processes started, one after the other
MaxSeedFailures == 1    \* repository operations of seed runs that fail

seedUser == UserOf(Str(<<"s", "e", "e", "d", "-", "u", "s", "e", "r">>))

Reverse(s) == [i \in 1..Len(s) |-> s[Len(s) + 1 - i]]

\* .reduce((s, it, x) => (x > 3 ? s : (s += it)), '') from index x on
RECURSIVE reduceSeedId(_, _, _)
reduceSeedId(chars, x, s) ==
    IF x >= Len(chars) THEN s
    ELSE reduceSeedId(chars, x + 1, IF x > 3 THEN s ELSE s \o <<chars[x + 1]>>)

seedIdUnreversed(now) == reduceSeedId(toString(now), 0, <<>>)

\* const seedId = Date.now().toString().split('').reverse().reduce(...)
seedId(now) == reduceSeedId(Reverse(toString(now)), 0, <<>>)

\* _.range(first, end)
range(first, end) == [i \in 1..(end - first) |-> first + i - 1]

\* ItemDTO.from({name: `seed${seedId}-${n}`, description: 'created from seed'})
seedDto(id, n) ==
    from([id |-> Undefined,
          name |-> Str(<<"s", "e", "e", "d">> \o id \o <<"-">> \o toString(n)),
          description |-> Str(<<"c", "r", "e", "a", "t", "e", "d", " ", "f", "r", "o", "m", " ", "s", "e", "e", "d">>)])

\* the DTOs of one run, in the order of _.range(1, 10)
seedWork(id) == [i \in 1..Len(range(1, 10)) |-> seedDto(id, range(1, 10)[i])]

LogLine(stream, text, arg) == [stream |-> stream, text |-> text, arg |-> arg]

SeedEnvMaps ==
    {SampleEnv,
     EnvMap(Str(<<"d", "b">>), Str(<<"5", "4">>), Str(<<"p", "g">>), Str(<<"p", "w">>),
            Undefined, Undefined, Str(DEV))}

\* the instant, in ms, at which the first seed process is started
SeedStartTimes == {98760}

InitSeed ==
    /\ env \in SeedEnvMaps
    /\ pc = "start"
    /\ configService = Undefined
    /\ thrown = Undefined
    /\ ormOptions = Undefined
    /\ connected = FALSE
    /\ swagger = FALSE
    /\ listenPort = Undefined
    /\ table = <<>>
    /\ requests = EmptyBag
    /\ settled = Undefined
    /\ clock \in SeedStartTimes
    /\ listed = Undefined
    /\ seed = Undefined
    /\ start = Undefined
    /\ schema = Migrated
    /\ call = NoCall
    /\ ret = Undefined

SeedRuns == IF seed = Undefined THEN 0 ELSE seed.runs
SeedSucceeded == IF seed = Undefined THEN 0 ELSE seed.succeeded
SeedFailures == IF seed = Undefined THEN 0 ELSE seed.failures

\* `ts-node src/scripts/seed.ts`: the imports are evaluated, the config
\* singleton among them; an error thrown there is uncaught and ends the
\* process with exit code 1. Then run() is called: it reads the clock,
\* derives opt and awaits createConnection(opt).
SeedStart ==
    /\ IF seed = Undefined THEN TRUE ELSE seed.pc = "exited"
    /\ SeedRuns < MaxSeedRuns
    /\ LET r == NewConfigService(env)
           opt == IF r.ok THEN getTypeOrmConfig(r.value) ELSE r
       IN  seed' = [runs |-> SeedRuns + 1, succeeded |-> SeedSucceeded,
                    failures |-> SeedFailures,
                    pc |-> IF opt.ok THEN "connecting" ELSE "exited",
                    seedId |-> IF opt.ok THEN Str(seedId(clock + 1)) ELSE Undefined,
                    opt |-> opt,
                    issuedAt |-> Undefined,
                    work |-> <<>>,
                    rowsBefore |-> Len(table),
                    outcome |-> "pending",
                    log |-> <<>>,
                    exitCode |-> IF opt.ok THEN Undefined ELSE Num(1)]
    /\ clock' = clock + 1
    /\ UNCHANGED <<env, pc, configService, thrown, ormOptions, connected, swagger,
                   listenPort, table, requests, settled, listed, call, ret, start, schema>>

seedCatchSilent(log, error) == log

\* .catch(error => console.error('seed error', error)) on the rejected run()
seedCatch(log, error) == Append(log, LogLine("stderr", "seed error", error))

\* createConnection settles. Connected: the nine DTOs are built and
\* itemService.create is called for each, which builds the entity at this
\* instant and issues its repo.save; the function then awaits
\* Promise.all(work). Not connected: run() rejects.
SeedConnect ==
    /\ seed # Undefined
    /\ seed.pc = "connecting"
    /\ \E reachable \in BOOLEAN :
        /\ ~reachable => seed.failures < MaxSeedFailures
        /\ seed' =
            IF reachable
            THEN [seed EXCEPT
                    !.pc = "working",
                    !.issuedAt = clock,
                    !.work = [i \in 1..Len(seedWork(seed.seedId.s)) |-> "pending"]]
            ELSE [seed EXCEPT
                    !.pc = "settled",
                    !.failures = @ + 1,
                    !.outcome = "rejected",
                    !.log = seedCatch(@, ConnectionLost)]
    /\ UNCHANGED <<env, pc, configService, thrown, ormOptions, connected, swagger,
                   listenPort, table, requests, settled, clock, listed, call, ret, start, schema>>

Pending(work) == {i \in 1..Len(work) : work[i] = "pending"}

\* the entity whose repo.save the i-th itemService.create of the run issued
seedEntity(i) == create(seedWork(seed.seedId.s)[i], seedUser, seed.issuedAt)

\* the repo.save of the i-th create settles. Fulfilled: create's .then maps
\* the entity to a DTO r and the script's .then logs 'done ->' r.name; when
\* it was the last one pending of a run without failure, Promise.all
\* resolves and run()'s .then logs the closing line. Rejected: Promise.all
\* rejects on the first rejection and the .catch logs it.
SeedSaveSettles(i) ==
    /\ seed # Undefined
    /\ seed.pc = "working"
    /\ i \in Pending(seed.work)
    /\ \E saved \in {save(table, seedEntity(i), clock), Throw(ConnectionLost)} :
        LET r == createThen(saved)
            work == [seed.work EXCEPT
                        ![i] = IF r.ok THEN "fulfilled" ELSE "rejected"]
            done == IF r.ok
                    THEN Append(seed.log, LogLine("stdout", "done ->", r.value.name))
                    ELSE seed.log
            allFulfilled == \A j \in 1..Len(work) : work[j] = "fulfilled"
        IN  /\ ~saved.ok => seed.failures < MaxSeedFailures
            /\ table' = committed(table, saved)
            /\ seed' = [seed EXCEPT
                    !.work = work,
                    !.failures = IF r.ok THEN @ ELSE @ + 1,
                    !.outcome = IF seed.outcome # "pending" THEN @
                                ELSE IF ~r.ok THEN "rejected"
                                ELSE IF allFulfilled THEN "resolved"
                                ELSE @,
                    !.succeeded = IF seed.outcome = "pending" /\ allFulfilled
                                  THEN @ + 1 ELSE @,
                    !.log = IF seed.outcome # "pending" THEN done
                            ELSE IF ~r.ok THEN seedCatch(done, r.error)
                            ELSE IF allFulfilled
                            THEN Append(done, LogLine("stdout",
                                        "...wait for script to exit", Undefined))
                            ELSE done,
                    !.pc = IF Pending(work) = {} THEN "settled" ELSE @]
    /\ UNCHANGED <<env, pc, configService, thrown, ormOptions, connected, swagger,
                   listenPort, requests, settled, clock, listed, call, ret, start, schema>>

SeedSettles == \E i \in 1..Len(range(1, 10)) : SeedSaveSettles(i)

\* nothing is pending any more and no error went uncaught: the process ends
\* with exit code 0
SeedExit ==
    /\ seed # Undefined
    /\ seed.pc = "settled"
    /\ seed' = [seed EXCEPT !.pc = "exited", !.exitCode = Num(0)]
    /\ UNCHANGED <<env, pc, configService, thrown, ormOptions, connected, swagger,
                   listenPort, table, requests, settled, clock, listed, call, ret, start, schema>>

NextSeed ==
    \/ SeedStart
    \/ SeedConnect
    \/ SeedSettles
    \/ SeedExit

SpecSeed == InitSeed /\ [][NextSeed]_vars

-----------------------------------------------------------------------------
(* Unit level: the seedId expression of scripts/seed.ts evaluated at any    *)
(* instant                                                                  *)

MinSeedIdTime == 985    \* the earliest instant, in ms, seedId is evaluated at
MaxSeedIdTime == 1100   \* the latest of the consecutive instants

\* consecutive instants around the first four-digit one, and later instants
\* of five, seven and ten digits
SeedIdTimes ==
    (MinSeedIdTime..MaxSeedIdTime) \cup {98760, 98761, 5895895, 1570350985}

InitSeedId ==
    /\ env = SampleEnv
    /\ pc = "start"
    /\ configService = Undefined
    /\ thrown = Undefined
    /\ ormOptions = Undefined
    /\ connected = FALSE
    /\ swagger = FALSE
    /\ listenPort = Undefined
    /\ table = <<>>
    /\ requests = EmptyBag
    /\ settled = Undefined
    /\ clock \in SeedIdTimes
    /\ listed = Undefined
    /\ seed = Undefined
    /\ start = Undefined
    /\ schema = Migrated
    /\ call = NoCall
    /\ ret = Undefined

CallSeedId ==
    /\ call = NoCall
    /\ call' = [fn |-> "seedId", now |-> clock]
    /\ ret' = Return(Str(seedId(clock)))
    /\ UNCHANGED <<env, serverVars>>

NextSeedId == CallSeedId

SpecSeedId == InitSeedId /\ [][NextSeedId]_vars

-----------------------------------------------------------------------------
(* The start script: start.sh, launched on each deploy; it may run the      *)
(* migrations and then starts the server process of main.ts                 *)

MaxStarts == 2      \* launches of start.sh, one after the other

\* what RUN_MIGRATIONS may hold in the environment of a launch
RunMigrationsValues ==
    {Undefined, Str(<<>>), Str(<<"0">>), Str(<<"1">>), Str(<<"t", "r", "u", "e">>)}

\* what src/migration may hold in the deployed code
MigrationDirs ==
    {{init1570350985895}, {init1570350985895, next1570350990000}}

InitStart ==
    /\ env \in SeedEnvMaps
    /\ pc = "off"
    /\ configService = Undefined
    /\ thrown = Undefined
    /\ ormOptions = Undefined
    /\ connected = FALSE
    /\ swagger = FALSE
    /\ listenPort = Undefined
    /\ table = <<>>
    /\ requests = EmptyBag
    /\ settled = Undefined
    /\ clock = 0
    /\ listed = Undefined
    /\ seed = Undefined
    /\ start = Undefined
    /\ schema \in {Fresh, Synchronized}
    /\ call = NoCall
    /\ ret = Undefined

StartLaunches == IF start = Undefined THEN 0 ELSE start.launches

\* [ "$RUN_MIGRATIONS" ]: true when the expansion is a non-empty string
test(v) == ~(v = Undefined \/ v = Str(<<>>))

noErrexit(status) == TRUE

\* set -e: the script goes on after a command only when it exited with 0
errexit(status) == status = 0

\* the server process of this deploy, at position p and with nothing built
ServerProcess(p) ==
    /\ pc' = p
    /\ configService' = Undefined
    /\ thrown' = Undefined
    /\ ormOptions' = Undefined
    /\ connected' = FALSE
    /\ swagger' = FALSE
    /\ listenPort' = Undefined

\* start.sh is launched: the test on RUN_MIGRATIONS; when it holds, the echo
\* and the migration command, which the script waits for; otherwise the
\* echo START SERVER and npm run start:prod
Launch ==
    /\ IF start = Undefined THEN TRUE ELSE start.pc \in {"aborted", "server"}
    /\ StartLaunches < MaxStarts
    /\ \E rm \in RunMigrationsValues, files \in MigrationDirs :
        /\ start' = [launches |-> StartLaunches + 1,
                     RUN_MIGRATIONS |-> rm,
                     files |-> files,
                     before |-> schema,
                     pc |-> IF test(rm) THEN "migrating" ELSE "server",
                     out |-> IF test(rm) THEN <<"RUNNING MIGRATIONS">>
                             ELSE <<"START SERVER">>,
                     run |-> Undefined,
                     exitCode |-> Undefined]
        /\ ServerProcess(IF test(rm) THEN "off" ELSE "start")
    /\ UNCHANGED <<env, table, requests, settled, clock, listed, seed, schema, call, ret>>

\* npm run typeorm:migration:run ends: pretypeorm writes ormconfig.json from
\* the config singleton, then migration:run connects and runs. Exit code 0:
\* the script echoes START SERVER and runs npm run start:prod. Any other
\* exit code ends the script, under set -e, with that code.
MigrationSettles ==
    /\ start # Undefined
    /\ start.pc = "migrating"
    /\ \E reachable \in BOOLEAN :
        LET config == NewConfigService(env)
            r == IF ~config.ok
                 THEN [ok |-> FALSE, error |-> config.error, db |-> schema]
                 ELSE IF ~reachable
                 THEN [ok |-> FALSE, error |-> ConnectionLost, db |-> schema]
                 ELSE migrationRun(schema, start.files)
            status == IF r.ok THEN 0 ELSE 1
        IN  /\ schema' = IF r.ok THEN r.value.db ELSE r.db
            /\ start' = [start EXCEPT
                    !.run = [ok |-> r.ok,
                             statements |-> IF r.ok THEN r.value.statements ELSE <<>>,
                             error |-> IF r.ok THEN Undefined ELSE r.error],
                    !.pc = IF errexit(status) THEN "server" ELSE "aborted",
                    !.out = IF errexit(status) THEN Append(@, "START SERVER") ELSE @,
                    !.exitCode = IF errexit(status) THEN @ ELSE Num(status)]
            /\ pc' = IF errexit(status) THEN "start" ELSE pc
    /\ UNCHANGED <<env, configService, thrown, ormOptions, connected, swagger,
                   listenPort, table, requests, settled, clock, listed, seed, call, ret>>

NextStart ==
    \/ Launch
    \/ MigrationSettles
    \/ LoadConfigService
    \/ LoadAppModule
    \/ BootstrapCreate
    \/ BootstrapListen

SpecStart == InitStart /\ [][NextStart]_vars

-----------------------------------------------------------------------------
(* Properties *)

Absent(v) == v \in {Undefined, Str(<<>>)}

\* positions, in the declared order, of the required keys the environment lacks
MissingRequired(e) == {i \in 1..Len(RequiredKeys) : Absent(e[RequiredKeys[i]])}

FirstMissing(e) ==
    RequiredKeys[CHOOSE i \in MissingRequired(e) : \A j \in MissingRequired(e) : i <= j]

MissingConfiguration(key) == <<"config error - missing env.", key>>

\* C1: for every DTO and every acting user, fromEntity(toEntity(dto, user))
\* has the name and the description of dto.
RoundTripPreservesNameAndDescription ==
    call.fn = "fromEntity" =>
        /\ ret.value.name = call.source.dto.name
        /\ ret.value.description = call.source.dto.description

\* C2: a create that succeeds for a body {name, description} has added exactly
\* one row and answers with that row's generated, non-empty id and with the
\* submitted name and description.
CreateReturnsSubmittedFields ==
    (/\ settled # Undefined
     /\ settled.response.ok
     /\ settled.req.body.id = Undefined
     /\ settled.req.body.name # Undefined) =>
        /\ Len(table) = settled.rowsBefore + 1
        /\ settled.response.value.id = table[Len(table)].id
        /\ settled.response.value.id.t = "string"
        /\ settled.response.value.id.s # <<>>
        /\ settled.response.value.name = settled.req.body.name
        /\ settled.response.value.description = settled.req.body.description

\* C3: toEntity stamps createdBy and lastChangedBy with the acting user's id,
\* or with null when the user is null or absent; the two are always equal.
ToEntityStampsAuditFields ==
    call.fn = "toEntity" =>
        LET e == ret.value
        IN  /\ call.user \in {Undefined, Null} =>
                (e.createdBy = Null /\ e.lastChangedBy = Null)
            /\ call.user \notin {Undefined, Null} =>
                (e.createdBy = call.user.id /\ e.lastChangedBy = call.user.id)
            /\ e.createdBy = e.lastChangedBy

ToEntityStampsUserId ==
    /\ call.fn = "toEntity"
    /\ call.user = UserOf(Str(<<"u", "1">>))
    /\ ret.value.createdBy = Str(<<"u", "1">>)
    /\ ret.value.lastChangedBy = Str(<<"u", "1">>)

\* C4: the acting user handed to ItemService.create is never absent (the
\* request's principal, or a placeholder), so the entity of every POST /item
\* has non-null createdBy and lastChangedBy and its save does not fail.
PostActorNeverAbsent ==
    \A r \in BagToSet(requests) :
        /\ r.user \notin {Undefined, Null}
        /\ r.req.user # Undefined => r.user = r.req.user
        /\ r.entity.createdBy # Null
        /\ r.entity.lastChangedBy # Null

\* C5: building the config singleton fails exactly when a required key is
\* absent or empty, and the error names the first such key in declared order.
ConstructionFailsIffRequiredKeyMissing ==
    pc # "start" =>
        /\ (configService = Undefined) <=> (MissingRequired(env) # {})
        /\ MissingRequired(env) # {} =>
            /\ pc = "exited"
            /\ thrown # Undefined
            /\ thrown.error.message = MissingConfiguration(FirstMissing(env))
        /\ MissingRequired(env) = {} =>
            (thrown = Undefined \/ thrown.at # "config.service")

ConstructionFailedOnSecondKey ==
    /\ pc = "exited"
    /\ ~Absent(env["POSTGRES_HOST"])
    /\ env["POSTGRES_PORT"] = Str(<<>>)
    /\ env["POSTGRES_DATABASE"] = Undefined
    /\ thrown.error.message = MissingConfiguration("POSTGRES_PORT")

\* C6: with a required key missing the process fails while the config
\* singleton is built: it never gets past that import, opens no connection,
\* does not listen and handles no request, and the error is not deferred to
\* the first use of the database configuration.
FailFastAtConstruction ==
    MissingRequired(env) # {} =>
        /\ pc \in {"start", "exited"}
        /\ pc = "exited" => (thrown # Undefined /\ thrown.at = "config.service")
        /\ ormOptions = Undefined
        /\ ~connected
        /\ listenPort = Undefined
        /\ requests = EmptyBag
        /\ settled = Undefined
        /\ listed = Undefined

FailedBeforeConnecting ==
    /\ MissingRequired(env) = {4}
    /\ pc = "exited"
    /\ thrown.at = "config.service"
    /\ ~connected
    /\ listenPort = Undefined

\* C7: isProduction() is false exactly when MODE is 'DEV'; for MODE absent,
\* empty or any other value it is true, and it never throws.
IsProductionFalseIffModeDev ==
    call.fn = "isProduction" =>
        /\ ret.ok
        /\ ret.value \in BOOLEAN
        /\ (ret.value = FALSE) <=> (env["MODE"] = Str(DEV))

IsProductionOnAbsentMode ==
    /\ call.fn = "isProduction"
    /\ env["MODE"] = Undefined
    /\ ret = Return(TRUE)

\* C8: getValue returns the value of a present, non-empty key; for an absent
\* or empty key it throws the missing-configuration error carrying the key
\* when throwOnMissing is true, and returns the undefined or empty value
\* without throwing when throwOnMissing is false.
GetValueContract ==
    call.fn = "getValue" =>
        LET v == env[call.key]
        IN  /\ ~Absent(v) => ret = Return(v)
            /\ (Absent(v) /\ call.throwOnMissing) =>
                (~ret.ok /\ ret.error.message = MissingConfiguration(call.key))
            /\ (Absent(v) /\ ~call.throwOnMissing) =>
                (ret.ok /\ ret.value = v)

GetValueThrowsOnEmpty ==
    /\ call.fn = "getValue"
    /\ call.throwOnMissing
    /\ env[call.key] = Str(<<>>)
    /\ ~ret.ok
    /\ ret.error.message = MissingConfiguration(call.key)

DecimalDigits == {Digits[i] : i \in 1..Len(Digits)}
HexDigits == DecimalDigits \cup {"a", "b", "c", "d", "e", "f", "A", "B", "C", "D", "E", "F"}

RECURSIVE Pow(_, _)
Pow(b, n) == IF n = 0 THEN 1 ELSE b * Pow(b, n - 1)

\* the number a numeral denotes, by positional weight
RECURSIVE PositionalSum(_, _, _)
PositionalSum(s, radix, i) ==
    IF i > Len(s) THEN 0
    ELSE DigitVal(s[i]) * Pow(radix, Len(s) - i) + PositionalSum(s, radix, i + 1)

IsNumeral(s) == s # <<>> /\ \A i \in 1..Len(s) : s[i] \in DecimalDigits

\* the longest prefix of s made of characters of the set
LeadingRun(s, chars) ==
    LET n == CHOOSE k \in 0..Len(s) :
                /\ \A i \in 1..k : s[i] \in chars
                /\ k < Len(s) => s[k + 1] \notin chars
    IN  SubSeq(s, 1, n)

\* the value of the numeral s starts with (hexadecimal after 0x), NaN when
\* it starts with none
LeadingValue(s) ==
    IF Len(s) >= 2 /\ s[1] = "0" /\ s[2] \in {"x", "X"}
    THEN LET run == LeadingRun(SubSeq(s, 3, Len(s)), HexDigits)
         IN  IF run = <<>> THEN NaN ELSE Num(PositionalSum(run, 16, 1))
    ELSE LET run == LeadingRun(s, DecimalDigits)
         IN  IF run = <<>> THEN NaN ELSE Num(PositionalSum(run, 10, 1))

\* what the port of the descriptor is: the integer value of POSTGRES_PORT
\* when it is a numeral; else, after leading blanks and one sign, the value
\* of the numeral it starts with, negated after a minus sign
PortOf(s) ==
    IF IsNumeral(s) THEN Num(PositionalSum(s, 10, 1))
    ELSE LET blanks == Len(LeadingRun(s, {" ", "\t", "\n"}))
             t == SubSeq(s, blanks + 1, Len(s))
             signed == t # <<>> /\ t[1] \in {"+", "-"}
             v == LeadingValue(IF signed THEN Tail(t) ELSE t)
         IN  IF signed /\ t[1] = "-" /\ v # NaN THEN Num(0 - v.n) ELSE v

DescriptorCopiesEnvironment(d) ==
    /\ d.host = env["POSTGRES_HOST"]
    /\ d.username = env["POSTGRES_USER"]
    /\ d.password = env["POSTGRES_PASSWORD"]
    /\ d.database = env["POSTGRES_DATABASE"]
    /\ d.migrationsTableName = "migration"
    /\ d.ssl = (env["MODE"] # Str(DEV))

\* C9 as claimed: for every validated environment the descriptor copies host,
\* username, password and database, names the migration table 'migration',
\* has TLS on unless MODE is 'DEV', and its port is an integer, the one
\* POSTGRES_PORT denotes.
DescriptorPortIsIntegerValue ==
    (call.fn = "getTypeOrmConfig" /\ MissingRequired(env) = {}) =>
        /\ ret.ok
        /\ DescriptorCopiesEnvironment(ret.value)
        /\ ret.value.port.t = "number"
        /\ IsNumeral(env["POSTGRES_PORT"].s) =>
            ret.value.port.n = PositionalSum(env["POSTGRES_PORT"].s, 10, 1)

\* C9 amended: as claimed, except that the port is parseInt(POSTGRES_PORT):
\* the integer POSTGRES_PORT denotes when it is a decimal numeral; otherwise,
\* after leading blanks and a sign, the value of the numeral it starts with,
\* and NaN when it starts with none.
DescriptorPortIsParsedPrefix ==
    (call.fn = "getTypeOrmConfig" /\ MissingRequired(env) = {}) =>
        /\ ret.ok
        /\ DescriptorCopiesEnvironment(ret.value)
        /\ ret.value.port = PortOf(env["POSTGRES_PORT"].s)

DescriptorOfTrailingGarbagePort ==
    /\ call.fn = "getTypeOrmConfig"
    /\ MissingRequired(env) = {}
    /\ env["POSTGRES_PORT"] = Str(<<"8", "x">>)
    /\ env["MODE"] = Str(DEV)
    /\ ret.ok
    /\ ret.value.port = Num(8)
    /\ ret.value.ssl = FALSE

\* C10 as claimed: getTypeOrmConfig never raises a missing-configuration
\* error; over an environment that lacks a required key it returns a
\* descriptor with that field absent.
GetTypeOrmConfigNeverThrows ==
    call.fn = "getTypeOrmConfig" => ret.ok

\* C10 amended: getTypeOrmConfig validates again: it returns a descriptor
\* exactly when the five required keys are present and non-empty, and
\* otherwise throws the missing-configuration error naming the first of
\* them, in the order host, port, user, password, database, that is missing.
GetTypeOrmConfigThrowsOnMissingKey ==
    call.fn = "getTypeOrmConfig" =>
        /\ ret.ok <=> (MissingRequired(env) = {})
        /\ ~ret.ok => ret.error.message = MissingConfiguration(FirstMissing(env))

GetTypeOrmConfigThrewOnDatabase ==
    /\ call.fn = "getTypeOrmConfig"
    /\ MissingRequired(env) = {5}
    /\ ~ret.ok
    /\ ret.error.message = MissingConfiguration("POSTGRES_DATABASE")

\* C11: getPort() returns the value of PORT when it is present and non-empty,
\* and otherwise throws the missing-configuration error naming PORT; it never
\* returns undefined or the empty string.
GetPortReturnsPortOrThrows ==
    call.fn = "getPort" =>
        /\ ~Absent(env["PORT"]) => ret = Return(env["PORT"])
        /\ Absent(env["PORT"]) =>
            (~ret.ok /\ ret.error.message = MissingConfiguration("PORT"))
        /\ ret.ok => ~Absent(ret.value)

GetPortThrowsOnEmptyPort ==
    /\ call.fn = "getPort"
    /\ env["PORT"] = Str(<<>>)
    /\ MissingRequired(env) = {}
    /\ ~ret.ok
    /\ ret.error.message = MissingConfiguration("PORT")

DtoFields == {"id", "name", "description"}

\* C12: every value GET /item and POST /item answer with has exactly the
\* fields id, name and description, each the one of the entity it was made
\* from, and so carries none of that entity's audit fields: entities that
\* agree on id, name and description give equal DTOs.
ResponsesCarryOnlyDtoFields ==
    /\ (settled # Undefined /\ settled.response.ok) =>
        /\ DOMAIN settled.response.value = DtoFields
        /\ \A f \in DtoFields :
            settled.response.value[f] = settled.saved.value.entity[f]
    /\ (listed # Undefined /\ listed.response.ok) =>
        \A i \in 1..Len(listed.response.value) :
            /\ DOMAIN listed.response.value[i] = DtoFields
            /\ \A f \in DtoFields :
                listed.response.value[i][f] = listed.found.value[i][f]

ListedAndCreatedWithAuditFieldsStored ==
    /\ settled # Undefined
    /\ settled.response.ok
    /\ listed # Undefined
    /\ listed.response.ok
    /\ Len(listed.response.value) = 1
    /\ listed.found.value[1].createdBy = Str(<<"u", "1">>)
    /\ listed.found.value[1].isActive = Bool(TRUE)
    /\ DOMAIN listed.response.value[1] = DtoFields

\* how many times row occurs in the sequence rows
Occurrences(rows, row) == Cardinality({i \in 1..Len(rows) : rows[i] = row})

TableOnlyGrowsByOneRow ==
    [][table' # table =>
        /\ Len(table') = Len(table) + 1
        /\ SubSeq(table', 1, Len(table)) = table]_vars

\* C15: the entity toEntity returns has no id, whatever the DTO carries, so
\* the entity handed to repo.save has none and every id of the table is a
\* generated one.
ToEntityLeavesIdUnset ==
    call.fn = "toEntity" => ret.value.id = Undefined

\* the constraints of ItemDTO: @IsString() name, @IsString() description,
\* and @IsUUID() on an id that is present
SatisfiesDtoConstraints(body) ==
    /\ body.name # Undefined /\ body.name.t = "string"
    /\ body.description # Undefined /\ body.description.t = "string"
    /\ body.id # Undefined =>
        (body.id.t = "string" /\ \E k \in 1..9 : body.id.s = UuidOf(k))

\* C16: a POST /item whose body fails the DTO's constraints is rejected
\* before the service layer: ItemService.create is not called for it, so no
\* save is ever pending or settled for such a body and no row comes of it.
InvalidBodyNeverReachesService ==
    /\ \A r \in BagToSet(requests) : SatisfiesDtoConstraints(r.req.body)
    /\ settled # Undefined => SatisfiesDtoConstraints(settled.req.body)

\* C17: getAll and create invoke their repository operation exactly once per
\* call, and when that operation fails the call fails with that same error:
\* the failure is neither retried nor turned into a successful answer.
RepositoryFailurePropagates ==
    /\ \A r \in BagToSet(requests) : r.saves = 1
    /\ settled # Undefined =>
        /\ settled.saves = 1
        /\ ~settled.saved.ok =>
            (~settled.response.ok /\ settled.response.error = settled.saved.error)
    /\ listed # Undefined =>
        /\ listed.finds = 1
        /\ ~listed.found.ok =>
            (~listed.response.ok /\ listed.response.error = listed.found.error)

SaveAndFindFailedAndSurfaced ==
    /\ settled # Undefined
    /\ settled.saved = Throw(ConnectionLost)
    /\ settled.response = Throw(ConnectionLost)
    /\ listed # Undefined
    /\ listed.found = Throw(ConnectionLost)
    /\ listed.response = Throw(ConnectionLost)
    /\ table = <<>>

\* the rows the current seed run has added to the table
SeedRows == {k \in (seed.rowsBefore + 1)..Len(table) : TRUE}

\* the names of the DTOs the current seed run submitted
SeedNames == {seedWork(seed.seedId.s)[i].name : i \in 1..Len(seedWork(seed.seedId.s))}

\* the names the current seed run has logged after 'done ->'
LoggedNames ==
    {seed.log[j].arg : j \in {j \in 1..Len(seed.log) : seed.log[j].text = "done ->"}}

\* C18: a seed run that succeeded has added nine rows whose names are
\* seed<suffix>-1 .. seed<suffix>-9 for the suffix of that run, each with
\* description 'created from seed' and createdBy 'seed-user', and the names
\* it logged are those seed names, one line per row.
SeedRunPersistsSeedNames ==
    (seed # Undefined /\ seed.outcome = "resolved") =>
        /\ Cardinality(SeedRows) = 9
        /\ Cardinality(SeedNames) = 9
        /\ {table[k].name : k \in SeedRows} = SeedNames
        /\ \A k \in SeedRows :
            /\ table[k].description = seedDto(seed.seedId.s, 1).description
            /\ table[k].createdBy = seedUser.id
        /\ Cardinality({j \in 1..Len(seed.log) : seed.log[j].text = "done ->"}) = 9
        /\ LoggedNames = SeedNames

\* C19: a seed run in which opening the connection or an insert failed has
\* logged the error, and its process ends with a non-zero exit code, never
\* with exit code 0.
FailedSeedRunExitsNonZero ==
    (seed # Undefined /\ seed.outcome = "rejected") =>
        /\ \E j \in 1..Len(seed.log) : seed.log[j].text = "seed error"
        /\ seed.pc = "exited" => (seed.exitCode # Undefined /\ seed.exitCode # Num(0))

\* C20: the ids of the table are pairwise distinct, and once n seed runs
\* have been made against the initially empty table, all of them complete
\* and successful, the table holds exactly 9 * n rows.
SeedRunsAccumulateDistinctRows ==
    /\ \A i, j \in 1..Len(table) : table[i].id = table[j].id => i = j
    /\ (seed # Undefined /\ seed.pc = "exited" /\ seed.succeeded = seed.runs) =>
        Len(table) = 9 * seed.runs

TwoSeedRunsMadeEighteenRows ==
    /\ seed # Undefined
    /\ seed.pc = "exited"
    /\ seed.runs = 2
    /\ seed.succeeded = 2
    /\ Len(table) = 18
    /\ Cardinality({table[i].id : i \in 1..Len(table)}) = 18

\* the decimal digit of weight 10^k of the natural number t
DigitAt(t, k) == Digits[((t \div Pow(10, k)) % 10) + 1]

\* C21 as claimed: for every instant t >= 1000 the seed suffix is the last
\* four characters of the decimal representation of t, in their order there.
SeedIdIsLastFourDigits ==
    (call.fn = "seedId" /\ call.now >= 1000) =>
        ret.value.s = <<DigitAt(call.now, 3), DigitAt(call.now, 2),
                        DigitAt(call.now, 1), DigitAt(call.now, 0)>>

\* C21 amended: for every instant t >= 1000 the seed suffix is the four
\* low-order decimal digits of t in reversed order, the units digit first.
SeedIdIsLastFourDigitsReversed ==
    (call.fn = "seedId" /\ call.now >= 1000) =>
        ret.value.s = <<DigitAt(call.now, 0), DigitAt(call.now, 1),
                        DigitAt(call.now, 2), DigitAt(call.now, 3)>>

SeedIdOfTenDigitInstant ==
    /\ call.fn = "seedId"
    /\ call.now = 1570350985
    /\ ret.value.s = <<"5", "8", "9", "0">>

Fulfilled(work) == {i \in 1..Len(work) : work[i] = "fulfilled"}

\* C22: no transaction wraps the seed inserts: at every moment of a run, in
\* every interleaving and whichever inserts fail, the rows the run has added
\* are exactly those of its fulfilled inserts, each as it was issued, so no
\* failure undoes an insert; and the process does not end while an insert
\* it issued is pending, so a failure stops none of the others.
SeedInsertsAreIndependent ==
    (seed # Undefined /\ seed.work # <<>>) =>
        /\ Len(table) = seed.rowsBefore + Cardinality(Fulfilled(seed.work))
        /\ \A k \in SeedRows :
            /\ table[k].createdBy = seedUser.id
            /\ table[k].createDateTime = Date(seed.issuedAt)
        /\ seed.pc \in {"settled", "exited"} => Pending(seed.work) = {}

\* an insert failed, one fulfilled before it and one after it, and all
\* fulfilled ones are in the table when the process has ended
InsertsCompletedAroundAFailure ==
    /\ seed # Undefined
    /\ seed.pc = "exited"
    /\ seed.outcome = "rejected"
    /\ Cardinality(Fulfilled(seed.work)) = 8
    /\ Len(table) = seed.rowsBefore + 8
    /\ \E j \in 2..(Len(seed.log) - 1) :
        /\ seed.log[j].text = "seed error"
        /\ seed.log[j - 1].text = "done ->"
        /\ seed.log[j + 1].text = "done ->"

\* the positions of the log of the current seed run that hold the text
LinesWith(text) == {j \in 1..Len(seed.log) : seed.log[j].text = text}

\* C29: the seed run writes 'done ->' once per fulfilled insert and never
\* for a rejected one; '...wait for script to exit' is written at most once,
\* as the last line, after all nine 'done ->' lines and only in a run
\* without failure; in a run whose connection or whose insert failed it is
\* never written and 'seed error' is written exactly once.
SeedLogIsOrdered ==
    seed # Undefined =>
        /\ Cardinality(LinesWith("done ->")) = Cardinality(Fulfilled(seed.work))
        /\ \A j \in LinesWith("...wait for script to exit") :
            /\ j = Len(seed.log)
            /\ LinesWith("done ->") = 1..9
            /\ LinesWith("seed error") = {}
        /\ seed.outcome = "resolved" =>
            Cardinality(LinesWith("...wait for script to exit")) = 1
        /\ seed.outcome = "rejected" =>
            /\ LinesWith("...wait for script to exit") = {}
            /\ Cardinality(LinesWith("seed error")) = 1
        /\ seed.outcome = "pending" => LinesWith("seed error") = {}

FailureLoggedBeforeEightDoneLines ==
    /\ seed # Undefined
    /\ seed.pc = "exited"
    /\ Len(seed.log) = 9
    /\ seed.log[1].text = "seed error"
    /\ seed.log[1].arg = ConnectionLost
    /\ LinesWith("done ->") = 2..9
    /\ Len(table) = seed.rowsBefore + 8

\* C26: the documentation endpoint is registered during bootstrap exactly
\* when MODE is 'DEV': a server that listens has it if and only if MODE is
\* 'DEV', and at no other moment and for no other MODE, absent included, is
\* it registered.
SwaggerOnlyInDevMode ==
    /\ pc = "listening" => (swagger <=> env["MODE"] = Str(DEV))
    /\ pc # "listening" => ~swagger
    /\ env["MODE"] # Str(DEV) => ~swagger

ListeningWithoutSwaggerForLowercaseMode ==
    /\ pc = "listening"
    /\ env["MODE"] = Str(<<"d", "e", "v">>)
    /\ ~swagger
    /\ listenPort = Num(ListenPort)

\* C28: the server listens on 3000 in every environment, whatever PORT is;
\* PORT is not among the keys the startup validation reports, and with the
\* five database keys present nothing but an unreachable database, PORT
\* absent included, keeps the server from starting.
ListenPortIgnoresPort ==
    /\ listenPort # Undefined => listenPort = Num(3000)
    /\ pc = "listening" => listenPort = Num(3000)
    /\ thrown # Undefined => thrown.error.message # MissingConfiguration("PORT")
    /\ (pc = "exited" /\ MissingRequired(env) = {}) => thrown.at = "main"

ListeningOn3000WithPort80 ==
    /\ pc = "listening"
    /\ env["PORT"] = Str(<<"8", "0">>)
    /\ listenPort = Num(3000)
    /\ thrown = Undefined

\* C27: concurrent creates do not interfere. Whenever the save of a pending
\* request whose DTO carries no id is fulfilled, in whatever order the
\* pending saves settle, exactly one row is added after the unchanged rows,
\* its id is the id of no other row, it holds what that request's own entity
\* held, the response is the projection of that row, and the requests still
\* pending are as they were.
ConcurrentCreatesDoNotInterfere ==
    [][(/\ BagCardinality(requests') < BagCardinality(requests)
        /\ settled'.saved.ok
        /\ settled'.entity.id = Undefined) =>
            LET row == table'[Len(table')]
            IN  /\ Len(table') = Len(table) + 1
                /\ SubSeq(table', 1, Len(table)) = table
                /\ \A i \in 1..Len(table) : table[i].id # row.id
                /\ row.description = settled'.entity.description
                /\ row.createdBy = settled'.entity.createdBy
                /\ row.lastChangedBy = settled'.entity.lastChangedBy
                /\ row.createDateTime = settled'.entity.createDateTime
                /\ settled'.response = Return(fromEntity(row))
                /\ requests' (+) SetToBag({[req |-> settled'.req,
                                            user |-> settled'.user,
                                            saves |-> settled'.saves,
                                            entity |-> settled'.entity]}) = requests]_vars

\* two creates were pending together and the one issued first settled last
TwoConcurrentCreatesSettledInReverse ==
    /\ Len(table) = 2
    /\ table[1].createDateTime = Date(2)
    /\ table[2].createDateTime = Date(1)
    /\ table[1].id # table[2].id
    /\ settled # Undefined
    /\ settled.entity.id = Undefined
    /\ settled.entity.createDateTime = Date(1)
    /\ settled.response = Return(fromEntity(table[2]))

\* the tracking table of db holds a row for migration m
Records(db, m) == \E i \in 1..Len(db.migration) : db.migration[i].name = m.name

\* the launch of start.sh under way has had its migration command end
MigrationEnded == IF start = Undefined THEN FALSE ELSE start.run # Undefined

MigrationAttempted ==
    IF start = Undefined THEN FALSE
    ELSE start.pc = "migrating" \/ start.run # Undefined

\* C24: a launch of start.sh runs the migration command when RUN_MIGRATIONS
\* is 1 and does not run it when RUN_MIGRATIONS is 0 or unset, and unless the
\* migration command is still running or has failed, the server is started.
StartScriptMigratesExactlyWhenOne ==
    start # Undefined =>
        /\ start.RUN_MIGRATIONS = Str(<<"1">>) => MigrationAttempted
        /\ start.RUN_MIGRATIONS \in {Undefined, Str(<<"0">>)} => ~MigrationAttempted
        /\ (start.pc # "migrating" /\ (start.run = Undefined \/ start.run.ok)) =>
            /\ start.pc = "server"
            /\ pc # "off"
            /\ start.out[Len(start.out)] = "START SERVER"

\* C25: while the migration command runs the server is not started; when
\* the command failed the script has ended with a non-zero exit code without
\* the START SERVER line and without a server; and a server was started
\* only when no migration was to be run or the command succeeded.
ServerStartsOnlyAfterMigrationSucceeded ==
    start # Undefined =>
        /\ start.pc = "migrating" => pc = "off"
        /\ (start.run # Undefined /\ ~start.run.ok) =>
            /\ start.pc = "aborted"
            /\ pc = "off"
            /\ \A i \in 1..Len(start.out) : start.out[i] # "START SERVER"
            /\ start.exitCode # Undefined /\ start.exitCode # Num(0)
        /\ pc # "off" =>
            /\ start.pc = "server"
            /\ test(start.RUN_MIGRATIONS) => (start.run # Undefined /\ start.run.ok)

\* the init migration failed on an item table made by synchronisation, and
\* the launch ended without a server
LaunchAbortedOnExistingTable ==
    /\ MigrationEnded
    /\ ~start.run.ok
    /\ start.run.error = SchemaError("relation already exists", "item")
    /\ start.pc = "aborted"
    /\ pc = "off"

====
